---- MODULE Spec2Model ----
(***************************************************************************)
(* Model of dashboard.py: load_data (classification parsing and label      *)
(* formatting), domain_share, top_locations and the aggregation part of    *)
(* main (filtering, KPIs, share tables, location table).                   *)
(*                                                                         *)
(* Strings are sequences of one-character strings.  A missing value (the   *)
(* NaN pandas puts where .str[i] has no element) is the value NaN below.   *)
(* Shares are exact rationals <<numerator, denominator>> in lowest terms.  *)
(***************************************************************************)
EXTENDS Integers, Sequences, FiniteSets

VARIABLES
    df,       \* the table returned by load_data (sequence of rows)
    out,      \* result of the latest run of main on df
    first,    \* a remembered earlier run of main (session history)
    cls,      \* a classification string under parse
    labels,   \* the labels load_data derives from cls
    slice,    \* a slice of loaded rows handed to a calculator
    res       \* the calculator's result for slice

vars == <<df, out, first, cls, labels, slice, res>>

-----------------------------------------------------------------------------
(* Bounds *)

MaxRows == 4          \* rows of a table in Spec
MaxSessionRows == 2   \* rows of a table in SessionSpec
MaxLen == 7           \* length of a classification string in ParseSpec
MaxSlice == 3         \* rows of a slice in CalcSpec
MaxN == 3             \* largest n handed to top_locations in CalcSpec

-----------------------------------------------------------------------------
(* Characters and Python's str methods *)

NaN == <<"NaN">>
NA == <<"N/A">>

LowerCase == <<"a", "b", "c", "d", "e", "f", "g", "o", "t", "u", "x", "y">>
UpperCase == <<"A", "B", "C", "D", "E", "F", "G", "O", "T", "U", "X", "Y">>

IsLower(c) == \E i \in DOMAIN LowerCase : LowerCase[i] = c
IsUpper(c) == \E i \in DOMAIN UpperCase : UpperCase[i] = c
IsCased(c) == IsLower(c) \/ IsUpper(c)

Upper(c) == IF IsLower(c) THEN UpperCase[CHOOSE i \in DOMAIN LowerCase : LowerCase[i] = c] ELSE c
Lower(c) == IF IsUpper(c) THEN LowerCase[CHOOSE i \in DOMAIN UpperCase : UpperCase[i] = c] ELSE c

\* str.split("/"): the maximal "/"-free pieces, in order; "" gives <<"">>
RECURSIVE split_from(_, _, _)
split_from(s, i, cur) ==
    IF i > Len(s) THEN <<cur>>
    ELSE IF s[i] = "/" THEN <<cur>> \o split_from(s, i + 1, <<>>)
    ELSE split_from(s, i + 1, Append(cur, s[i]))

str_split(s) == split_from(s, 1, <<>>)

\* .str[i] (0-based): the element, or NaN when the list is too short
str_get(parts, i) == IF i + 1 <= Len(parts) THEN parts[i + 1] ELSE NaN

\* as str_replace, but replacing the first underscore only
str_replace_mutant(s) ==
    IF s = NaN THEN NaN
    ELSE [i \in 1..Len(s) |->
            IF s[i] = "_" /\ (\A j \in 1..(i - 1) : s[j] # "_") THEN " " ELSE s[i]]

\* .str.replace("_", " "); NaN stays NaN
str_replace(s) ==
    IF s = NaN THEN NaN
    ELSE [i \in 1..Len(s) |-> IF s[i] = "_" THEN " " ELSE s[i]]

\* .str.title(): a cased character is upper-cased when the character before
\* it is not cased and lower-cased when it is; NaN stays NaN
RECURSIVE title_loop(_, _, _)
title_loop(s, i, previous_is_cased) ==
    IF i > Len(s) THEN <<>>
    ELSE LET c == s[i]
             o == IF IsCased(c)
                  THEN (IF previous_is_cased THEN Lower(c) ELSE Upper(c))
                  ELSE c
         IN  <<o>> \o title_loop(s, i + 1, IsCased(c))

str_title(s) == IF s = NaN THEN NaN ELSE title_loop(s, 1, FALSE)

\* one derived label of load_data: split, take the level, replace, title
label(pc, level) == str_title(str_replace(str_get(str_split(pc), level)))

\* the three derived columns of one row
parse(pc) == [domain |-> label(pc, 0), field |-> label(pc, 1), title |-> label(pc, 2)]

\* load_data applied to one raw row
load_row(raw) ==
    [Company |-> raw.Company, PredictedClass |-> raw.PredictedClass,
     Location |-> raw.Location,
     domain |-> parse(raw.PredictedClass).domain,
     field |-> parse(raw.PredictedClass).field,
     title |-> parse(raw.PredictedClass).title]

load_data(csv) == [i \in 1..Len(csv) |-> load_row(csv[i])]

-----------------------------------------------------------------------------
(* Exact rationals standing for the float shares and means *)

RECURSIVE GCD(_, _)
GCD(a, b) == IF b = 0 THEN a ELSE GCD(b, a % b)

Frac(n, d) == LET g == GCD(n, d) IN <<n \div g, d \div g>>
Zero == <<0, 1>>
One == <<1, 1>>
FAdd(a, b) == Frac(a[1] * b[2] + b[1] * a[2], a[2] * b[2])
FDiv(a, k) == Frac(a[1], a[2] * k)

RECURSIVE FSum(_)
FSum(fs) == IF fs = <<>> THEN Zero ELSE FAdd(fs[1], FSum(Tail(fs)))

\* Series.mean(): the sum divided by the number of entries
mean(fs) == FDiv(FSum(fs), Len(fs))

-----------------------------------------------------------------------------
(* pandas column operations; a column is a sequence of values *)

\* the values of a series as a plain sequence (s.values)
values(s) == SubSeq(s, 1, Len(s))

column(rows, col) == values([i \in 1..Len(rows) |-> rows[i][col]])

Count(c, v) == Cardinality({i \in DOMAIN c : c[i] = v})

\* Series.unique(): the distinct values in order of first occurrence, NaN included
unique(c) ==
    LET firsts == {i \in DOMAIN c : \A j \in 1..(i - 1) : c[j] # c[i]}
        pos(k) == CHOOSE i \in firsts : Cardinality({j \in firsts : j < i}) = k - 1
    IN  values([k \in 1..Cardinality(firsts) |-> c[pos(k)]])

dropna(c) == SelectSeq(c, LAMBDA v : v # NaN)

\* Series.nunique(): the number of distinct non-missing values
nunique(c) == Len(dropna(unique(c)))

\* sort_values(ascending=False) of <<value, count>> pairs: descending count,
\* pairs of equal count keeping their relative order
sort_desc(ps) ==
    LET before(i, j) == ps[i][2] > ps[j][2] \/ (ps[i][2] = ps[j][2] /\ i < j)
        at(k) == CHOOSE i \in DOMAIN ps :
                     Cardinality({j \in DOMAIN ps : before(j, i)}) = k - 1
    IN  values([k \in 1..Len(ps) |-> ps[at(k)]])

\* Series.value_counts(): <<value, count>> of every distinct non-missing
\* value, by descending count
value_counts(c) ==
    LET u == dropna(unique(c))
    IN  sort_desc(values([k \in 1..Len(u) |-> <<u[k], Count(c, u[k])>>]))

\* Series.value_counts(normalize=True): each count divided by the sum of the
\* counts, that is by the number of non-missing values
value_counts_normalized(c) ==
    LET vc == value_counts(c)
        total == Len(dropna(c))
    IN  values([k \in 1..Len(vc) |-> <<vc[k][1], Frac(vc[k][2], total)>>])

\* Series.nlargest(n) of <<value, count>> pairs: the n largest counts, ties
\* in the order of the series (keep="first")
nlargest(ps, n) ==
    LET s == sort_desc(ps)
    IN  SubSeq(s, 1, IF n < Len(s) THEN n ELSE Len(s))

\* value_counts().idxmax(): the value of the first largest count
idxmax(vc) == vc[CHOOSE i \in DOMAIN vc :
                    /\ \A j \in DOMAIN vc : vc[j][2] <= vc[i][2]
                    /\ \A j \in 1..(i - 1) : vc[j][2] < vc[i][2]][1]

-----------------------------------------------------------------------------
(* domain_share and top_locations *)

\* the default n of top_locations
DefaultN == 5

\* domain_share: value_counts(normalize=True) of the domain column
domain_share(df_, name) ==
    LET s == value_counts_normalized(column(df_, "domain"))
    IN  values([k \in 1..Len(s) |-> [key |-> s[k][1], Share |-> s[k][2], Company |-> name]])

\* as top_locations, but never more than n - 1 rows
top_locations_mutant(df_, name, n) ==
    LET s == nlargest(value_counts(column(df_, "Location")), IF n > 0 THEN n - 1 ELSE 0)
    IN  values([k \in 1..Len(s) |-> [Location |-> s[k][1], Count |-> s[k][2], Company |-> name]])

\* top_locations: value_counts().nlargest(n) of the Location column
top_locations(df_, name, n) ==
    LET s == nlargest(value_counts(column(df_, "Location")), n)
    IN  values([k \in 1..Len(s) |-> [Location |-> s[k][1], Count |-> s[k][2], Company |-> name]])

-----------------------------------------------------------------------------
(* main: filtering, KPIs and the four comparison tables *)

Average == <<"Big 4 Average">>

\* sorted(df["Company"].unique()) and sorted(df["Predicted domain"].unique())
companies(rows) == {rows[i].Company : i \in DOMAIN rows}
domain_options(rows) == {rows[i].domain : i \in DOMAIN rows}

\* df[df["Predicted domain"].isin(domains)]
filter_domains(rows, domains) == SelectSeq(rows, LAMBDA r : r.domain \in domains)

\* df_filtered[df_filtered["Company"] == firm]
filter_company(rows, firm) == SelectSeq(rows, LAMBDA r : r.Company = firm)

\* a set as a sequence, in some fixed order
RECURSIVE SetToSeq(_)
SetToSeq(S) == IF S = {} THEN <<>>
               ELSE LET x == CHOOSE y \in S : TRUE IN <<x>> \o SetToSeq(S \ {x})

\* df_filtered.groupby("Company").size().mean()
avg_posts(filtered) == Frac(Len(filtered), Cardinality(companies(filtered)))

\* df_filtered.groupby("Company")["Location"].nunique().mean()
avg_unique_locs(filtered) ==
    LET cs == SetToSeq(companies(filtered))
    IN  mean(values([k \in 1..Len(cs) |->
                 <<nunique(column(filter_company(filtered, cs[k]), "Location")), 1>>]))

\* the share of value v in a normalized value_counts, 0 where v has no entry
share_of(dist, v) ==
    IF \E k \in DOMAIN dist : dist[k][1] = v
    THEN dist[CHOOSE k \in DOMAIN dist : dist[k][1] = v][2]
    ELSE Zero

\* groupby("Company")[col].value_counts(normalize=True): the groups are the
\* companies with a non-missing value of col, each with its distribution
groups_of(filtered, col) ==
    SetToSeq({c \in companies(filtered) :
                 dropna(column(filter_company(filtered, c), col)) # <<>>})

group_shares(filtered, col) ==
    LET gs == groups_of(filtered, col)
    IN  values([k \in 1..Len(gs) |->
                   value_counts_normalized(column(filter_company(filtered, gs[k]), col))])

\* .unstack(fill_value=0).mean() at category v: the mean over the groups of
\* the group's share of v, 0 where the group has none
avg_series(shares, v) ==
    mean(values([k \in 1..Len(shares) |-> share_of(shares[k], v)]))

\* as avg_dist, but with one row per category of the filtered table
avg_dist_all(filtered, sel, col) ==
    LET index == dropna(unique(column(filtered, col)))
        shares == group_shares(filtered, col)
    IN  values([k \in 1..Len(index) |->
                   [key |-> index[k], Share |-> avg_series(shares, index[k]),
                    Company |-> Average]])

\* avg_series.reindex(sel_funcs, fill_value=0), labelled "Big 4 Average"
avg_dist(filtered, sel, col) ==
    LET sel_funcs == unique(column(sel, col))
        index == dropna(unique(column(filtered, col)))
        shares == group_shares(filtered, col)
        has(v) == \E k \in DOMAIN index : index[k] = v
    IN  values([k \in 1..Len(sel_funcs) |->
                   [key |-> sel_funcs[k],
                    Share |-> IF has(sel_funcs[k]) THEN avg_series(shares, sel_funcs[k]) ELSE Zero,
                    Company |-> Average]])

\* sel[col].value_counts(normalize=True), labelled with the firm
sel_dist(sel, firm, col) ==
    LET s == value_counts_normalized(column(sel, col))
    IN  values([k \in 1..Len(s) |-> [key |-> s[k][1], Share |-> s[k][2], Company |-> firm]])

\* pd.concat([sel_dist, avg_dist]) for one of the title and field charts
share_table(filtered, sel, firm, col) ==
    sel_dist(sel, firm, col) \o avg_dist(filtered, sel, col)

\* the result of a run in which a statement raised: nothing is computed
Raised == [status |-> "raised", firm |-> <<>>, domains |-> {},
           total_posts |-> 0, unique_locs |-> 0, top_func |-> NA,
           avg_posts |-> Zero, avg_unique_locs |-> Zero, overall_top_func |-> NA,
           title_table |-> <<>>, field_table |-> <<>>,
           domain_table |-> <<>>, location_table |-> <<>>]

\* before the first run
NoRun == [Raised EXCEPT !.status = "none"]

\* lines 83-206 of main for the widget values firm and domains.  idxmax of
\* an empty value_counts raises ValueError (lines 90 and 94); a raise leaves
\* nothing computed
main(table, firm, domains) ==
    LET df_filtered == filter_domains(table, domains)
        sel == filter_company(df_filtered, firm)
        total_posts == Len(sel)
        sel_titles == value_counts(column(sel, "title"))
        all_titles == value_counts(column(df_filtered, "title"))
    IN  IF (total_posts # 0 /\ sel_titles = <<>>) \/ all_titles = <<>>
        THEN [Raised EXCEPT !.firm = firm, !.domains = domains]
        ELSE [status |-> "ok", firm |-> firm, domains |-> domains,
              total_posts |-> total_posts,
              unique_locs |-> nunique(column(sel, "Location")),
              top_func |-> IF total_posts # 0 THEN idxmax(sel_titles) ELSE NA,
              avg_posts |-> avg_posts(df_filtered),
              avg_unique_locs |-> avg_unique_locs(df_filtered),
              overall_top_func |-> idxmax(all_titles),
              title_table |-> share_table(df_filtered, sel, firm, "title"),
              field_table |-> share_table(df_filtered, sel, firm, "field"),
              domain_table |-> domain_share(sel, firm)
                               \o domain_share(df_filtered, Average),
              location_table |-> top_locations(sel, firm, DefaultN)
                                 \o top_locations(df_filtered, Average, DefaultN)]

-----------------------------------------------------------------------------
(* Inputs *)

A == <<"A">>
B == <<"B">>
Companies == {A, B}
Locations == {<<"L1">>}

ClassX == <<"x", "/", "f", "/", "t">>
ClassY == <<"y", "/", "g", "/", "u">>
OnlyOnePart == <<"o">>
Classes == {ClassX, ClassY, OnlyOnePart}

X == <<"X">>
Y == <<"Y">>

RawRows == [Company : Companies, PredictedClass : Classes, Location : Locations]

\* all tables of 1..n rows
Tables(n) == UNION {[1..k -> RawRows] : k \in 1..n}

Raw(c, pc) == [Company |-> c, PredictedClass |-> pc, Location |-> <<"L1">>]

\* A: 3 rows of domain X and 1 row of domain Y; B: 2 rows of domain X
Scenario == <<Raw(A, ClassX), Raw(A, ClassX), Raw(A, ClassX), Raw(A, ClassY),
              Raw(B, ClassX), Raw(B, ClassX)>>

NoLabels == [done |-> FALSE, again |-> FALSE, domain |-> NaN, field |-> NaN, title |-> NaN]
NoFirst == [run |-> NoRun, between |-> FALSE]
NoRes == [op |-> "none", col |-> "", n |-> 0, value |-> <<>>]

-----------------------------------------------------------------------------
(* The dashboard: the table is loaded, then main runs once per widget change *)

\* as Run, but filtering the loaded table in place
Run_inplace(firm, domains) ==
    /\ out' = main(df, firm, domains)
    /\ df' = filter_domains(df, domains)
    /\ UNCHANGED <<cls, labels, slice, res>>

\* one run of main for the widget values firm and domains
Run(firm, domains) ==
    /\ out' = main(df, firm, domains)
    /\ UNCHANGED <<df, cls, labels, slice, res>>

\* the run of main on the freshly loaded table
Main(firm, domains) ==
    /\ out.status = "none"
    /\ Run(firm, domains)
    /\ UNCHANGED first

Init ==
    /\ \E csv \in Tables(MaxRows) \cup {Scenario} : df = load_data(csv)
    /\ out = NoRun
    /\ first = NoFirst
    /\ cls = <<>>
    /\ labels = NoLabels
    /\ slice = <<>>
    /\ res = NoRes

Next == \E firm \in companies(df), domains \in SUBSET domain_options(df) :
            Main(firm, domains)

Spec == Init /\ [][Next]_vars

-----------------------------------------------------------------------------
(* A session: runs of main one after the other, one earlier run remembered *)

SameArgs(r1, r2) == r1.firm = r2.firm /\ r1.domains = r2.domains

SessionMain(firm, domains) ==
    /\ Run(firm, domains)
    /\ \/ first' = [run |-> out', between |-> FALSE]
       \/ first' = [run |-> first.run,
                    between |-> first.between
                                \/ (first.run.status # "none" /\ ~SameArgs(out', first.run))]

SessionInit ==
    /\ \E csv \in Tables(MaxSessionRows) : df = load_data(csv)
    /\ out = NoRun
    /\ first = NoFirst
    /\ cls = <<>>
    /\ labels = NoLabels
    /\ slice = <<>>
    /\ res = NoRes

SessionNext == \E firm \in companies(df), domains \in SUBSET domain_options(df) :
                   SessionMain(firm, domains)

SessionSpec == SessionInit /\ [][SessionNext]_vars

-----------------------------------------------------------------------------
(* parse on its own: every classification string over a small alphabet *)

Chars == {"a", "B", "_", "/"}
Example == <<"a", "_", "b", "/", "c", "/", "d", "_", "e">>
Strings(n) == UNION {[1..k -> Chars] : k \in 0..n}

Parse ==
    /\ ~labels.done
    /\ labels' = [done |-> TRUE, again |-> FALSE, domain |-> parse(cls).domain,
                  field |-> parse(cls).field, title |-> parse(cls).title]
    /\ UNCHANGED <<df, out, first, cls, slice, res>>

\* the label formatting applied to the labels once more
Reformat ==
    /\ labels.done /\ ~labels.again
    /\ labels' = [done |-> TRUE, again |-> TRUE,
                  domain |-> str_title(str_replace(labels.domain)),
                  field |-> str_title(str_replace(labels.field)),
                  title |-> str_title(str_replace(labels.title))]
    /\ UNCHANGED <<df, out, first, cls, slice, res>>

ParseInit ==
    /\ cls \in Strings(MaxLen) \cup {Example}
    /\ labels = NoLabels
    /\ df = <<>>
    /\ out = NoRun
    /\ first = NoFirst
    /\ slice = <<>>
    /\ res = NoRes

ParseNext == Parse \/ Reformat

ParseSpec == ParseInit /\ [][ParseNext]_vars

-----------------------------------------------------------------------------
(* The calculators on their own: every slice of loaded rows *)

CalcLocations == {<<"L1">>, <<"L2">>, <<"L3">>}
CalcRows == [Company : {A}, PredictedClass : Classes, Location : CalcLocations]
Slices(n) == UNION {[1..k -> CalcRows] : k \in 0..n}

\* value_counts(normalize=True) of a column of the slice (domain_share for
\* the domain column, the selected firm's distribution for title and field)
Distribution(col) ==
    /\ res.op = "none"
    /\ res' = [op |-> "distribution", col |-> col, n |-> 0,
               value |-> IF col = "domain" THEN domain_share(slice, A)
                         ELSE sel_dist(slice, A, col)]
    /\ UNCHANGED <<df, out, first, cls, labels, slice>>

TopLocations(n) ==
    /\ res.op = "none"
    /\ res' = [op |-> "top", col |-> "Location", n |-> n,
               value |-> top_locations(slice, A, n)]
    /\ UNCHANGED <<df, out, first, cls, labels, slice>>

CalcInit ==
    /\ \E rows \in Slices(MaxSlice) : slice = load_data(rows)
    /\ res = NoRes
    /\ df = <<>>
    /\ out = NoRun
    /\ first = NoFirst
    /\ cls = <<>>
    /\ labels = NoLabels

CalcNext ==
    \/ \E col \in {"domain", "field", "title"} : Distribution(col)
    \/ \E n \in 0..MaxN : TopLocations(n)

CalcSpec == CalcInit /\ [][CalcNext]_vars

-----------------------------------------------------------------------------
(* What the properties below talk about *)

Ran == out.status # "none"
Filtered == filter_domains(df, out.domains)
Selection == filter_company(Filtered, out.firm)
SelSide(t) == SelectSeq(t, LAMBDA r : r.Company = out.firm)
AvgSide(t) == SelectSeq(t, LAMBDA r : r.Company = Average)
ValueSet(c) == {c[i] : i \in DOMAIN c}

\* a share as the glossary defines it: the count over the rows of the slice
ShareIn(rows, col, v) == Frac(Count(column(rows, col), v), Len(rows))

\* the cross-company average: the mean over the companies present in rows
\* of each company's own share
GroupAverage(rows, col, v) ==
    LET cs == SetToSeq(companies(rows))
    IN  mean([k \in 1..Len(cs) |-> ShareIn(filter_company(rows, cs[k]), col, v)])

Malformed(r) == Cardinality({i \in DOMAIN r.PredictedClass : r.PredictedClass[i] = "/"}) < 2
WellFormed(rows) == SelectSeq(rows, LAMBDA r : ~Malformed(r))

\* C1: the average side of the domain share table is, for every domain, the
\* mean over the companies of the filtered table of the company's own share;
\* in the scenario table with company A and filter {X, Y} it is X = 7/8,
\* Y = 1/8 next to the selected side X = 3/4, Y = 1/4.
C1_DomainAverageIsMeanOfShares ==
    out.status = "ok" =>
        /\ \A k \in DOMAIN AvgSide(out.domain_table) :
              AvgSide(out.domain_table)[k].Share
                  = GroupAverage(Filtered, "domain", AvgSide(out.domain_table)[k].key)
        /\ (df = load_data(Scenario) /\ out.firm = A /\ out.domains = {X, Y}) =>
              /\ SelSide(out.domain_table)
                    = <<[key |-> X, Share |-> <<3, 4>>, Company |-> A],
                        [key |-> Y, Share |-> <<1, 4>>, Company |-> A]>>
              /\ AvgSide(out.domain_table)
                    = <<[key |-> X, Share |-> <<7, 8>>, Company |-> Average],
                        [key |-> Y, Share |-> <<1, 8>>, Company |-> Average]>>

\* C2: in the title and field share tables of every run, the average side has
\* exactly one row per category of the selection, valued the sum of the
\* companies' shares over the number of companies of the filtered table.
C2_AverageIsMeanOverSelectionCategories ==
    Ran =>
        /\ out.status = "ok"
        /\ \A col \in {"title", "field"} :
              LET t == AvgSide(IF col = "title" THEN out.title_table ELSE out.field_table)
                  cats == ValueSet(column(WellFormed(Selection), col))
              IN  /\ Len(t) = Cardinality(cats)
                  /\ {t[k].key : k \in DOMAIN t} = cats
                  /\ \A k \in DOMAIN t :
                        t[k].Share = GroupAverage(WellFormed(Filtered), col, t[k].key)

\* C3: a run whose selection is empty after the domain filter does not raise.
C3_NoRaiseOnEmptySelection ==
    (Ran /\ Selection = <<>>) => out.status = "ok"

\* C4: when the selection is empty, none of the three selected-side KPIs is
\* reported as 0; each is a "no data" marker.
C4_NoDataKpisAreNotZero ==
    (out.status = "ok" /\ Selection = <<>>) =>
        /\ out.total_posts # 0
        /\ out.unique_locs # 0
        /\ out.top_func = NA

C6_MalformedRowsExcluded ==
    (Ran /\ \E i \in DOMAIN Filtered : Malformed(Filtered[i])) =>
        /\ out.status = "ok"
        /\ out.total_posts = Len(WellFormed(Selection))
        /\ SelSide(out.domain_table) = domain_share(WellFormed(Selection), out.firm)
        /\ \A t \in {out.title_table, out.field_table, out.domain_table} :
              \A k \in DOMAIN t : t[k].key # NaN

-----------------------------------------------------------------------------
(* The calculators *)

SliceColumn == column(slice, res.col)

\* C7: distribution has one entry per distinct value of the column in the
\* slice, each share the value's count over the number of rows of the slice;
\* every share is in (0, 1], the shares sum to 1 for a non-empty slice and
\* there is no entry for an empty slice.
C7_SharesAreCountsOverRows ==
    res.op = "distribution" =>
        /\ Len(res.value) = Cardinality(ValueSet(SliceColumn))
        /\ {res.value[k].key : k \in DOMAIN res.value} = ValueSet(SliceColumn)
        /\ \A k \in DOMAIN res.value :
              /\ res.value[k].Share = ShareIn(slice, res.col, res.value[k].key)
              /\ res.value[k].Share[1] > 0
              /\ res.value[k].Share[1] <= res.value[k].Share[2]
        /\ slice # <<>> =>
              FSum([k \in DOMAIN res.value |-> res.value[k].Share]) = One
        /\ slice = <<>> => res.value = <<>>

FirstIndex(c, v) == CHOOSE i \in DOMAIN c : c[i] = v /\ \A j \in 1..(i - 1) : c[j] # v

\* v comes before w: a larger count, or the same count and an earlier first row
RankedBefore(c, v, w) ==
    \/ Count(c, v) > Count(c, w)
    \/ Count(c, v) = Count(c, w) /\ FirstIndex(c, v) < FirstIndex(c, w)

Min(a, b) == IF a < b THEN a ELSE b

-----------------------------------------------------------------------------
(* Sessions *)

-----------------------------------------------------------------------------
(* parse *)

Slashes == {i \in DOMAIN cls : cls[i] = "/"}
FirstSlash == CHOOSE i \in Slashes : \A j \in Slashes : i <= j
LastSlash == CHOOSE i \in Slashes : \A j \in Slashes : j <= i

\* exactly three non-empty segments
Valid ==
    /\ Cardinality(Slashes) = 2
    /\ FirstSlash > 1
    /\ LastSlash > FirstSlash + 1
    /\ LastSlash < Len(cls)

Segment(k) ==
    CASE k = 1 -> SubSeq(cls, 1, FirstSlash - 1)
      [] k = 2 -> SubSeq(cls, FirstSlash + 1, LastSlash - 1)
      [] k = 3 -> SubSeq(cls, LastSlash + 1, Len(cls))

\* lab is seg with every underscore turned into a space, every other
\* character kept up to its case, and every word starting with a capital
Formatted(seg, lab) ==
    /\ lab # NaN
    /\ Len(lab) = Len(seg)
    /\ \A i \in DOMAIN seg :
          /\ seg[i] = "_" => lab[i] = " "
          /\ seg[i] # "_" => Lower(lab[i]) = Lower(seg[i])
          /\ (IsCased(lab[i]) /\ (i = 1 \/ lab[i - 1] = " ")) => IsUpper(lab[i])

\* C10: for a classification of exactly three non-empty segments parse gives
\* the three segments in order, underscores replaced by spaces and words
\* capitalized ("a_b/c/d_e" gives "A B", "C", "D E"), and formatting the
\* labels once more leaves them unchanged.
C10_ParseFormatsThreeSegments ==
    (labels.done /\ Valid) =>
        /\ ~labels.again =>
              /\ Formatted(Segment(1), labels.domain)
              /\ Formatted(Segment(2), labels.field)
              /\ Formatted(Segment(3), labels.title)
              /\ cls = Example =>
                    /\ labels.domain = <<"A", " ", "B">>
                    /\ labels.field = <<"C">>
                    /\ labels.title = <<"D", " ", "E">>
        /\ labels.again =>
              /\ labels.domain = label(cls, 0)
              /\ labels.field = label(cls, 1)
              /\ labels.title = label(cls, 2)

C10_Witness ==
    /\ cls = Example
    /\ labels.again
    /\ labels.title = <<"D", " ", "E">>

====
